---- MODULE Spec2Model ----
(***************************************************************************)
(* A model of the TODO list MCP server: the tool dispatcher               *)
(* (TodoMcpServer), its zod schemas, and the store (TodoDatabase) with    *)
(* the SQL statements it sends, read over one table todo_items.           *)
(*                                                                         *)
(* Conventions.                                                            *)
(*  - A string the code inspects character by character (title,           *)
(*    description, search) is a sequence of one-character strings.        *)
(*  - An optional value (a key that may be missing from the arguments, a  *)
(*    nullable column) is None or Some(v).                                *)
(*  - Timestamps are integers in the database's resolution; a JavaScript  *)
(*    Date keeps only whole milliseconds (DateOf).                        *)
(*  - gen_random_uuid() is modelled by a counter: the n-th generated id   *)
(*    is n (UUIDs are assumed not to collide).                            *)
(***************************************************************************)
EXTENDS Integers, Sequences, FiniteSets, TLC

----------------------------------------------------------------------------
\* Bounds of the model (not program constants).

\* ids the model lets gen_random_uuid() hand out: at most MaxIds creates
MaxIds == 2
\* the clock CURRENT_TIMESTAMP runs over 0..MaxTime (0..MaxTime + 1 in SpecItem,
\* which follows updated_at and due dates)
MaxTime == 1
\* database timestamp units per JavaScript millisecond (really 1000)
TicksPerMs == 2
\* the items an owner has when the statistics are rendered: 0..MaxCount
MaxCount == 40
\* the configured pool maximum (DB_POOL_MAX) ranges over 1..MaxPool
MaxPool == 2
\* store operations in progress at the same time
MaxTasks == 2

----------------------------------------------------------------------------
\* Program constants.

TitleMax == 255
DescMax == 1000
LimitMin == 1
LimitMax == 100
DefaultLimit == 50
DefaultOffset == 0
DefaultPoolMax == 10
\* the bits of the significand of a JavaScript number (IEEE 754 binary64)
Precision == 53

----------------------------------------------------------------------------
\* Optional values and strings.

None == <<>>
Some(v) == <<v>>
IsSome(o) == Len(o) = 1
Val(o) == o[1]

\* the string of n copies of the character c
Rep(c, n) == [i \in 1..n |-> c]

\* String.prototype.toLowerCase / the case folding of ILIKE, on the alphabet used
Lower(c) == IF c = "A" THEN "a" ELSE IF c = "B" THEN "b" ELSE c

\* JavaScript truthiness of an optional string: missing and "" are falsy
Truthy(o) == IsSome(o) /\ Val(o) # <<>>

----------------------------------------------------------------------------
\* Identity extractor.

AnonymousId == "anonymous"
AnonymousEmail == "anonymous@example.com"
AnonymousName == "Anonymous User"

\* headers[k] || dflt, for a header that is missing (None) or a string
OrDefault(h, dflt) == IF IsSome(h) /\ Val(h) # "" THEN Val(h) ELSE dflt

extractUserInfo(headers) ==
    [id    |-> OrDefault(headers.user, AnonymousId),
     email |-> OrDefault(headers.email, AnonymousEmail),
     name  |-> OrDefault(headers.name, AnonymousName)]

----------------------------------------------------------------------------
\* Schema validators (zod). Each returns the set of fields with an issue;
\* parse throws a ZodError iff that set is not empty.

Priorities == {"low", "medium", "high"}

\* An ISO-8601 string is modelled by whether z.string().datetime() accepts
\* it and by the instant it denotes.
Iso(t) == [datetime |-> TRUE, instant |-> t]
NotIso == [datetime |-> FALSE, instant |-> 0]

\* new Date(s) on an accepted ISO string, as the TIMESTAMP stored from it
ParseDate(s) == s.instant

TitleIssue(t) == IsSome(t) /\ (Len(Val(t)) < 1 \/ Len(Val(t)) > TitleMax)
\* a max(1000) that lets one character more through
DescIssueOffByOne(d) == IsSome(d) /\ Len(Val(d)) > DescMax + 1
DescIssue(d) == IsSome(d) /\ Len(Val(d)) > DescMax
PriorityIssue(p) == IsSome(p) /\ Val(p) \notin Priorities
DueIssue(d) == IsSome(d) /\ ~Val(d).datetime

CreateTodoSchemaIssues(p) ==
    {f \in {"title"} : p.title = None \/ TitleIssue(p.title)}
    \cup {f \in {"description"} : DescIssue(p.description)}
    \cup {f \in {"priority"} : PriorityIssue(p.priority)}
    \cup {f \in {"due_date"} : DueIssue(p.due_date)}

\* the parsed value of CreateTodoSchema: priority defaults to medium
CreateTodoSchemaData(p) ==
    [title       |-> Val(p.title),
     description |-> p.description,
     priority    |-> IF IsSome(p.priority) THEN p.priority ELSE Some("medium"),
     due_date    |-> p.due_date]

UpdateTodoSchemaIssues(p) ==
    {f \in {"title"} : TitleIssue(p.title)}
    \cup {f \in {"description"} : DescIssue(p.description)}
    \cup {f \in {"priority"} : PriorityIssue(p.priority)}
    \cup {f \in {"due_date"} : DueIssue(p.due_date)}

\* z.object({ id: z.string() })
IdSchemaIssues(p) == {f \in {"id"} : p.id = None}

\* a schema that checks the id alone and lets the other fields through
UpdateIdOnlyIssues(p) == IdSchemaIssues(p)

\* z.object({ id: z.string(), ...UpdateTodoSchema.shape })
UpdateWithIdIssues(p) == IdSchemaIssues(p) \cup UpdateTodoSchemaIssues(p)

\* the updates left after { id, ...updates } is taken apart
UpdatesOf(p) ==
    [title       |-> p.title,
     description |-> p.description,
     completed   |-> p.completed,
     priority    |-> p.priority,
     due_date    |-> p.due_date]

TodoFilterSchemaIssues(p) ==
    {f \in {"priority"} : PriorityIssue(p.priority)}
    \cup {f \in {"limit"} : IsSome(p.limit)
                             /\ (Val(p.limit) < LimitMin \/ Val(p.limit) > LimitMax)}
    \cup {f \in {"offset"} : IsSome(p.offset) /\ Val(p.offset) < 0}

\* the parsed value of TodoFilterSchema: limit and offset get their defaults
TodoFilterSchemaData(p) ==
    [completed |-> p.completed,
     priority  |-> p.priority,
     search    |-> p.search,
     limit     |-> IF IsSome(p.limit) THEN Val(p.limit) ELSE DefaultLimit,
     offset    |-> IF IsSome(p.offset) THEN Val(p.offset) ELSE DefaultOffset]

----------------------------------------------------------------------------
\* Timestamps.

\* a JavaScript Date (whole milliseconds) made from a database timestamp
DateOf(ts) == ts \div TicksPerMs

\* the TIMESTAMP stored for a JavaScript Date
TimestampOf(date) == date * TicksPerMs

----------------------------------------------------------------------------
\* SQL pattern matching: text ILIKE pattern, where % matches any run of
\* characters and _ any one character (the alphabet holds no escape character).

\* the pieces of a pattern between its % signs
RECURSIVE Segments(_)
Segments(p) ==
    IF p = <<>> THEN << <<>> >>
    ELSE LET rest == Segments(Tail(p))
         IN  IF Head(p) = "%"
             THEN << <<>> >> \o rest
             ELSE << <<Head(p)>> \o Head(rest) >> \o Tail(rest)

\* a %-free piece of a pattern matches the text at position q
SegAt(seg, t, q) ==
    /\ q >= 1
    /\ q + Len(seg) - 1 <= Len(t)
    /\ \A k \in 1..Len(seg) : seg[k] = "_" \/ Lower(seg[k]) = Lower(t[q + k - 1])

\* pieces k.. of a pattern, each preceded by a %, match the text from pos on;
\* the last piece must end the text
RECURSIVE Floating(_, _, _, _)
Floating(segs, k, t, pos) ==
    IF k = Len(segs)
    THEN LET q == Len(t) - Len(segs[k]) + 1
         IN  q >= pos /\ SegAt(segs[k], t, q)
    ELSE \E q \in pos..(Len(t) + 1) :
             SegAt(segs[k], t, q) /\ Floating(segs, k + 1, t, q + Len(segs[k]))

ILike(t, p) ==
    LET segs == Segments(p)
    IN  IF Len(segs) = 1
        THEN Len(t) = Len(p) /\ SegAt(segs[1], t, 1)
        ELSE SegAt(segs[1], t, 1) /\ Floating(segs, 2, t, Len(segs[1]) + 1)

----------------------------------------------------------------------------
\* The store: TodoDatabase over the table todo_items.

\* what a store method returns to the dispatcher, in one record shape
NoStats == [total |-> 0, completed |-> 0, pending |-> 0, overdue |-> 0]
NoRet ==
    [kind |-> "none", item |-> None, flag |-> FALSE, items |-> <<>>,
     total |-> 0, stats |-> NoStats]
Threw == [NoRet EXCEPT !.kind = "threw"]
Absent == [NoRet EXCEPT !.kind = "absent"]
ItemRet(item) == [NoRet EXCEPT !.kind = "item", !.item = Some(item)]
BoolRet(b) == [NoRet EXCEPT !.kind = "bool", !.flag = b]
ListRet(items, total) == [NoRet EXCEPT !.kind = "list", !.items = items, !.total = total]
StatsRet(s) == [NoRet EXCEPT !.kind = "stats", !.stats = s]

\* the column constraints of CREATE TABLE todo_items
RowConstraints(row) ==
    /\ Len(row.title) <= TitleMax
    /\ row.priority \in Priorities

mapRowToTodoItem(row) ==
    [id          |-> row.id,
     title       |-> row.title,
     description |-> row.description,
     completed   |-> row.completed,
     priority    |-> row.priority,
     due_date    |-> IF IsSome(row.due_date)
                     THEN Some(DateOf(Val(row.due_date))) ELSE None,
     created_at  |-> DateOf(row.created_at),
     updated_at  |-> DateOf(row.updated_at),
     user_id     |-> row.user_id,
     user_email  |-> row.user_email,
     user_name   |-> row.user_name]

\* an INSERT that binds user.name and user.email to each other's column
InsertedRowSwapped(todo, user, id, ts) ==
    [id          |-> id,
     title       |-> todo.title,
     description |-> IF Truthy(todo.description) THEN todo.description ELSE None,
     completed   |-> FALSE,
     priority    |-> IF IsSome(todo.priority) THEN Val(todo.priority) ELSE "medium",
     due_date    |-> IF IsSome(todo.due_date)
                     THEN Some(TimestampOf(ParseDate(Val(todo.due_date)))) ELSE None,
     created_at  |-> ts,
     updated_at  |-> ts,
     user_id     |-> user.id,
     user_email  |-> user.name,
     user_name   |-> user.email]

\* the row INSERT ... RETURNING * makes: id, completed, created_at and
\* updated_at take their column defaults
InsertedRow(todo, user, id, ts) ==
    [id          |-> id,
     title       |-> todo.title,
     description |-> IF Truthy(todo.description) THEN todo.description ELSE None,
     completed   |-> FALSE,
     priority    |-> IF IsSome(todo.priority) THEN Val(todo.priority) ELSE "medium",
     due_date    |-> IF IsSome(todo.due_date)
                     THEN Some(TimestampOf(ParseDate(Val(todo.due_date)))) ELSE None,
     created_at  |-> ts,
     updated_at  |-> ts,
     user_id     |-> user.id,
     user_email  |-> user.email,
     user_name   |-> user.name]

\* gen_random_uuid(): the id after n ids were generated
GenId(n, tbl) == n + 1

\* Each store method is a function of the table (and the clock) giving the
\* table afterwards and the value returned.
DbCreateTodo(tbl, todo, user, id, ts) ==
    LET row == InsertedRow(todo, user, id, ts)
    IN  IF RowConstraints(row) /\ \A r \in tbl : r.id # id
        THEN [tbl |-> tbl \cup {row}, ret |-> ItemRet(mapRowToTodoItem(row))]
        ELSE [tbl |-> tbl, ret |-> Threw]

\* a WHERE clause that forgets the owner: WHERE id = $1
WhereIdAnyUser(tbl, id, userId) == {r \in tbl : r.id = id}

\* WHERE id = $1 AND user_id = $2
WhereIdUser(tbl, id, userId) == {r \in tbl : r.id = id /\ r.user_id = userId}

DbGetTodoById(tbl, id, userId) ==
    LET rows == WhereIdUser(tbl, id, userId)
    IN  [tbl |-> tbl,
         ret |-> IF rows = {} THEN Absent
                 ELSE ItemRet(mapRowToTodoItem(CHOOSE r \in rows : TRUE))]

\* the WHERE clause getAllTodos builds from the filters
WhereFilters(r, userId, filters) ==
    /\ r.user_id = userId
    /\ IsSome(filters.completed) => r.completed = Val(filters.completed)
    /\ IsSome(filters.priority) => r.priority = Val(filters.priority)
    /\ Truthy(filters.search) =>
           LET pattern == <<"%">> \o Val(filters.search) \o <<"%">>
           IN  \/ ILike(r.title, pattern)
               \/ IsSome(r.description) /\ ILike(Val(r.description), pattern)

\* ORDER BY created_at DESC: every order of the rows SQL allows, rows of
\* equal created_at coming in any order
RECURSIVE OrderByCreatedDesc(_)
OrderByCreatedDesc(rows) ==
    IF rows = {} THEN {<<>>}
    ELSE LET first == {r \in rows : \A o \in rows : o.created_at <= r.created_at}
         IN  UNION {{<<r>> \o s : s \in OrderByCreatedDesc(rows \ {r})} : r \in first}

\* LIMIT $n OFFSET $m
LimitOffset(ordered, limit, offset) ==
    SubSeq(ordered, offset + 1, IF offset + limit < Len(ordered)
                                THEN offset + limit ELSE Len(ordered))

MapRows(ordered) == [i \in 1..Len(ordered) |-> mapRowToTodoItem(ordered[i])]

\* the values getAllTodos can return: one per order the second SELECT may use
DbGetAllTodos(tbl, userId, filters) ==
    LET rows == {r \in tbl : WhereFilters(r, userId, filters)}
        limit == IF filters.limit # 0 THEN filters.limit ELSE DefaultLimit
        offset == filters.offset
    IN  {ListRet(MapRows(LimitOffset(ordered, limit, offset)), Cardinality(rows)) :
             ordered \in OrderByCreatedDesc(rows)}

\* SET clauses that bind description whether or not the updates name it
SetClausesDescriptionAlways(r, updates, ts) ==
    [r EXCEPT
       !.title       = IF IsSome(updates.title) THEN Val(updates.title) ELSE @,
       !.description = updates.description,
       !.completed   = IF IsSome(updates.completed) THEN Val(updates.completed) ELSE @,
       !.priority    = IF IsSome(updates.priority) THEN Val(updates.priority) ELSE @,
       !.due_date    = IF IsSome(updates.due_date)
                       THEN Some(TimestampOf(ParseDate(Val(updates.due_date)))) ELSE @,
       !.updated_at  = ts]

\* the SET clauses of updateTodo applied to a row; updated_at = CURRENT_TIMESTAMP
SetClauses(r, updates, ts) ==
    [r EXCEPT
       !.title       = IF IsSome(updates.title) THEN Val(updates.title) ELSE @,
       !.description = IF IsSome(updates.description) THEN updates.description ELSE @,
       !.completed   = IF IsSome(updates.completed) THEN Val(updates.completed) ELSE @,
       !.priority    = IF IsSome(updates.priority) THEN Val(updates.priority) ELSE @,
       !.due_date    = IF IsSome(updates.due_date)
                       THEN Some(TimestampOf(ParseDate(Val(updates.due_date)))) ELSE @,
       !.updated_at  = ts]

\* setClauses.length === 0
NoSetClauses(updates) ==
    /\ updates.title = None
    /\ updates.description = None
    /\ updates.completed = None
    /\ updates.priority = None
    /\ updates.due_date = None

\* an updateTodo without the early return for setClauses.length === 0: it
\* always runs UPDATE ... SET ..., updated_at = CURRENT_TIMESTAMP
DbUpdateTodoAlwaysSets(tbl, id, updates, userId, ts) ==
    LET rows == WhereIdUser(tbl, id, userId)
    IN  IF rows = {} THEN [tbl |-> tbl, ret |-> Absent]
        ELSE LET old == CHOOSE r \in rows : TRUE
                 new == SetClauses(old, updates, ts)
             IN  [tbl |-> (tbl \ {old}) \cup {new},
                  ret |-> ItemRet(mapRowToTodoItem(new))]

DbUpdateTodo(tbl, id, updates, userId, ts) ==
    IF NoSetClauses(updates) THEN DbGetTodoById(tbl, id, userId)
    ELSE LET rows == WhereIdUser(tbl, id, userId)
         IN  IF rows = {} THEN [tbl |-> tbl, ret |-> Absent]
             ELSE LET old == CHOOSE r \in rows : TRUE
                      new == SetClauses(old, updates, ts)
                  IN  IF RowConstraints(new)
                      THEN [tbl |-> (tbl \ {old}) \cup {new},
                            ret |-> ItemRet(mapRowToTodoItem(new))]
                      ELSE [tbl |-> tbl, ret |-> Threw]

\* a deleteTodo that reports success without looking at rowCount
DbDeleteTodoAlwaysTrue(tbl, id, userId) ==
    [tbl |-> tbl \ WhereIdUser(tbl, id, userId), ret |-> BoolRet(TRUE)]

DbDeleteTodo(tbl, id, userId) ==
    LET rows == WhereIdUser(tbl, id, userId)
    IN  [tbl |-> tbl \ rows, ret |-> BoolRet(Cardinality(rows) > 0)]

\* a getTodoStats whose overdue filter forgets completed = false
DbGetTodoStatsAllOverdue(tbl, userId, ts) ==
    LET mine == {r \in tbl : r.user_id = userId}
    IN  [tbl |-> tbl,
         ret |-> StatsRet(
             [total     |-> Cardinality(mine),
              completed |-> Cardinality({r \in mine : r.completed}),
              pending   |-> Cardinality({r \in mine : ~r.completed}),
              overdue   |-> Cardinality({r \in mine :
                                IsSome(r.due_date) /\ Val(r.due_date) < ts})])]

DbGetTodoStats(tbl, userId, ts) ==
    LET mine == {r \in tbl : r.user_id = userId}
    IN  [tbl |-> tbl,
         ret |-> StatsRet(
             [total     |-> Cardinality(mine),
              completed |-> Cardinality({r \in mine : r.completed}),
              pending   |-> Cardinality({r \in mine : ~r.completed}),
              overdue   |-> Cardinality({r \in mine :
                                ~r.completed /\ IsSome(r.due_date)
                                /\ Val(r.due_date) < ts})])]

----------------------------------------------------------------------------
\* The tool dispatcher: TodoMcpServer.

\* a CallToolResult: its text blocks (how many, the completion rate the
\* statistics text shows, the number of resources the resources text shows)
\* and its resource_link blocks; or an exception leaving the method
Content(status, blocks) ==
    [kind |-> "content", status |-> status, blocks |-> blocks, links |-> <<>>,
     rate |-> 0, count |-> 0]
Raised ==
    [kind |-> "raised", status |-> "error", blocks |-> 0, links |-> <<>>,
     rate |-> 0, count |-> 0]

\* what one run of a handler's try block did: the table afterwards, whether
\* the arguments passed the schema, the store methods called, the value the
\* store returned and the response (Raised: an exception left the try block)
Out(tbl, valid, calls, ret, resp) ==
    [tbl |-> tbl, valid |-> valid, calls |-> calls, ret |-> ret, resp |-> resp]

\* a handler without its catch block: the exception leaves the method
CatchNothing(out) == out

\* catch (error) { return { content: [{ type: "text", text: "... Error ..." }] } }
Catch(out) ==
    IF out.resp.kind = "raised" THEN [out EXCEPT !.resp = Content("error", 1)] ELSE out

\* a store method that may fail (pool.connect() or client.query() rejects):
\* the statement then has no effect and the method throws
Store(fail, tbl, db) == IF fail THEN [tbl |-> tbl, ret |-> Threw] ELSE db

\* the rest of a handler after its store call returned or threw
AfterStore(db, resp) ==
    Out(db.tbl, TRUE, 1, db.ret,
        IF db.ret.kind = "threw" THEN Raised
        ELSE IF db.ret.kind = "absent" \/ (db.ret.kind = "bool" /\ ~db.ret.flag)
             THEN Content("notfound", 1)
             ELSE resp)

createTodo(tbl, params, headers, n, ts, fail) ==
    LET user == extractUserInfo(headers)
    IN  Catch(IF CreateTodoSchemaIssues(params) # {}
              THEN Out(tbl, FALSE, 0, NoRet, Raised)
              ELSE AfterStore(Store(fail, tbl,
                                    DbCreateTodo(tbl, CreateTodoSchemaData(params), user,
                                                 GenId(n, tbl), ts)),
                              Content("ok", 1)))

getTodo(tbl, params, headers, fail) ==
    LET user == extractUserInfo(headers)
    IN  Catch(IF IdSchemaIssues(params) # {}
              THEN Out(tbl, FALSE, 0, NoRet, Raised)
              ELSE AfterStore(Store(fail, tbl, DbGetTodoById(tbl, Val(params.id), user.id)),
                              Content("ok", 1)))

\* listTodos answers "No TODO items found" for an empty page
listTodos(tbl, params, headers, fail) ==
    LET user == extractUserInfo(headers)
    IN  IF TodoFilterSchemaIssues(params) # {}
        THEN {Catch(Out(tbl, FALSE, 0, NoRet, Raised))}
        ELSE {Catch(AfterStore(Store(fail, tbl, [tbl |-> tbl, ret |-> ret]),
                               IF ret.items = <<>> THEN Content("empty", 1)
                               ELSE Content("ok", 1))) :
                  ret \in DbGetAllTodos(tbl, user.id, TodoFilterSchemaData(params))}

updateTodo(tbl, params, headers, ts, fail) ==
    LET user == extractUserInfo(headers)
    IN  Catch(IF UpdateWithIdIssues(params) # {}
              THEN Out(tbl, FALSE, 0, NoRet, Raised)
              ELSE AfterStore(Store(fail, tbl,
                                    DbUpdateTodo(tbl, Val(params.id), UpdatesOf(params),
                                                 user.id, ts)),
                              Content("ok", 1)))

deleteTodo(tbl, params, headers, fail) ==
    LET user == extractUserInfo(headers)
    IN  Catch(IF IdSchemaIssues(params) # {}
              THEN Out(tbl, FALSE, 0, NoRet, Raised)
              ELSE AfterStore(Store(fail, tbl, DbDeleteTodo(tbl, Val(params.id), user.id)),
                              Content("ok", 1)))

\* JavaScript numbers. The counts are integers; a quotient is a binary64
\* number: a significand of Precision bits, the first one 1, and the exponent
\* e of its last bit, the value being significand * 2^e. Every operation
\* rounds its exact result to the nearest such number, ties to the even
\* significand. A significand is kept in three limbs, high to low, of
\* HighBits, HighBits and LowBits bits.
HighBits == (Precision + 1) \div 3
LowBits == Precision - 2 * HighBits

\* the zero bits between the binary point and the first 1 of c / t, 0 < c < t
RECURSIVE LeadingZeros(_, _)
LeadingZeros(c, t) == IF 2 * c >= t THEN 0 ELSE 1 + LeadingZeros(2 * c, t)

\* completed / total for 0 < completed < total: long division, limb by limb,
\* then the guard bit and what is left decide the rounding
Divide(c, t) ==
    LET z  == LeadingZeros(c, t)
        r0 == c * 2^z
        d1 == (r0 * 2^HighBits) \div t
        r1 == (r0 * 2^HighBits) % t
        d2 == (r1 * 2^HighBits) \div t
        r2 == (r1 * 2^HighBits) % t
        d3 == (r2 * 2^LowBits) \div t
        r3 == (r2 * 2^LowBits) % t
        guard == 2 * r3 >= t
        rest == IF guard THEN 2 * r3 - t ELSE 2 * r3
        up == guard /\ (rest # 0 \/ d3 % 2 = 1)
        e == 0 - (z + Precision)
    IN  IF ~up THEN [d1 |-> d1, d2 |-> d2, d3 |-> d3, e |-> e]
        ELSE IF d3 + 1 < 2^LowBits THEN [d1 |-> d1, d2 |-> d2, d3 |-> d3 + 1, e |-> e]
        ELSE IF d2 + 1 < 2^HighBits THEN [d1 |-> d1, d2 |-> d2 + 1, d3 |-> 0, e |-> e]
        ELSE IF d1 + 1 < 2^HighBits THEN [d1 |-> d1 + 1, d2 |-> 0, d3 |-> 0, e |-> e]
        ELSE [d1 |-> 2^(HighBits - 1), d2 |-> 0, d3 |-> 0, e |-> e + 1]

\* x * 100: the exact product limb by limb, then rounded to Precision bits by
\* dropping its lowest bits. The result is high * 2^(2 * HighBits - 1 + e)
\* plus a part below one unit of high.
Times100(x) ==
    LET p3 == x.d3 * 100
        p2 == x.d2 * 100 + p3 \div 2^LowBits
        p1 == x.d1 * 100 + p2 \div 2^HighBits
        l3 == p3 % 2^LowBits
        l2 == p2 % 2^HighBits
        \* the bits of the product beyond Precision
        extra == IF p1 >= 2^(HighBits + 6) THEN 7 ELSE 6
        kept == l3 \div 2^extra
        guard == (l3 \div 2^(extra - 1)) % 2 = 1
        rest == l3 % 2^(extra - 1)
        up == guard /\ (rest # 0 \/ kept % 2 = 1)
        carry3 == up /\ kept + 1 = 2^(LowBits - extra)
        carry2 == carry3 /\ l2 + 1 = 2^HighBits
    IN  [high |-> IF carry2 THEN p1 + 1 ELSE p1, e |-> x.e]

\* Math.round(y): the integer nearest to y, a half going up
MathRound(y) ==
    LET s == 0 - (2 * HighBits - 1 + y.e)
    IN  (y.high \div 2^(s - 1) + 1) \div 2

\* stats.total > 0 ? Math.round((stats.completed / stats.total) * 100) : 0
CompletionRate(stats) ==
    IF stats.total > 0
    THEN IF stats.completed = 0 THEN 0
         ELSE IF stats.completed = stats.total THEN 100
         ELSE MathRound(Times100(Divide(stats.completed, stats.total)))
    ELSE 0

getTodoStats(tbl, headers, ts, fail) ==
    LET user == extractUserInfo(headers)
        db == Store(fail, tbl, DbGetTodoStats(tbl, user.id, ts))
    IN  Catch(AfterStore(db, [Content("ok", 1) EXCEPT !.rate = CompletionRate(db.ret.stats)]))

\* the updates of a completeTodo that passes { completed: false }
CompletedFalse ==
    [title |-> None, description |-> None, completed |-> Some(FALSE),
     priority |-> None, due_date |-> None]

\* the updates completeTodo passes: { completed: true }
CompletedTrue ==
    [title |-> None, description |-> None, completed |-> Some(TRUE),
     priority |-> None, due_date |-> None]

completeTodo(tbl, params, headers, ts, fail) ==
    LET user == extractUserInfo(headers)
    IN  Catch(IF IdSchemaIssues(params) # {}
              THEN Out(tbl, FALSE, 0, NoRet, Raised)
              ELSE AfterStore(Store(fail, tbl,
                                    DbUpdateTodo(tbl, Val(params.id), CompletedTrue,
                                                 user.id, ts)),
                              Content("ok", 1)))

\* the address of an item: `todo://${todo.id}`, a string kept as its two parts
TodoUri(id) == <<"todo://", ToString(id)>>

\* the content getTodoResources returns: two text blocks, the first showing
\* resourceLinks.length; the links themselves are not among the blocks
ResourcesContent(resourceLinks) ==
    [Content("ok", 2) EXCEPT !.count = Len(resourceLinks)]

\* todos.map((todo) => ({ type: "resource_link", ... }))
ResourceLinks(todos) ==
    [i \in 1..Len(todos) |->
        [type        |-> "resource_link",
         uri         |-> TodoUri(todos[i].id),
         name        |-> todos[i].title,
         mimeType    |-> "application/json",
         description |-> [state    |-> IF todos[i].completed THEN "Completed" ELSE "Pending",
                          priority |-> todos[i].priority,
                          due      |-> todos[i].due_date]]]

getTodoResources(tbl, params, headers, fail) ==
    LET user == extractUserInfo(headers)
    IN  IF TodoFilterSchemaIssues(params) # {}
        THEN {Catch(Out(tbl, FALSE, 0, NoRet, Raised))}
        ELSE {Catch(AfterStore(Store(fail, tbl, [tbl |-> tbl, ret |-> ret]),
                               ResourcesContent(ResourceLinks(ret.items)))) :
                  ret \in DbGetAllTodos(tbl, user.id, TodoFilterSchemaData(params))}

\* uri.replace("todo://", ""): the first occurrence of the prefix is taken out
RECURSIVE StripPrefix(_)
StripPrefix(uri) ==
    IF uri = <<>> THEN <<>>
    ELSE IF Head(uri) = "todo://" THEN Tail(uri)
    ELSE <<Head(uri)>> \o StripPrefix(Tail(uri))

\* the text of an id bound to the UUID column: the id it denotes, or None
\* when the text is no UUID (the statement then fails)
ParseUuid(text) ==
    IF Len(text) = 1 /\ \E n \in 1..(MaxIds + 1) : ToString(n) = text[1]
    THEN Some(CHOOSE n \in 1..(MaxIds + 1) : ToString(n) = text[1])
    ELSE None

\* JSON.stringify(todo, null, 2): a Date becomes its ISO string, a key whose
\* value is undefined is left out, null stays null
JSONstringify(todo) ==
    [id          |-> ToString(todo.id),
     title       |-> todo.title,
     description |-> todo.description,
     completed   |-> todo.completed,
     priority    |-> todo.priority,
     due_date    |-> IF IsSome(todo.due_date) THEN <<Iso(Val(todo.due_date))>> ELSE <<>>,
     created_at  |-> Iso(todo.created_at),
     updated_at  |-> Iso(todo.updated_at),
     user_id     |-> todo.user_id,
     user_email  |-> todo.user_email,
     user_name   |-> todo.user_name]

\* a ReadResourceResult: { contents: [{ uri, text }] }
Contents(uri, text) ==
    [kind |-> "contents", status |-> "ok", blocks |-> 1, links |-> <<>>,
     rate |-> 0, count |-> 0, uri |-> uri, text |-> text]

\* a read whose catch block answers with content, the way the tools do
RethrowAsContent(out) ==
    IF out.resp.kind = "raised" THEN [out EXCEPT !.resp = Content("error", 1)] ELSE out

\* catch (error) { throw new Error("Error reading TODO resource: ...") }
Rethrow(out) == out

readTodoResource(tbl, uri, headers, fail) ==
    LET user == extractUserInfo(headers)
        todoId == ParseUuid(StripPrefix(uri))
        db == Store(fail \/ todoId = None, tbl,
                    DbGetTodoById(tbl, IF IsSome(todoId) THEN Val(todoId) ELSE 0, user.id))
    IN  Rethrow(Out(db.tbl, TRUE, 1, db.ret,
                    IF db.ret.kind = "item"
                    THEN Contents(uri, JSONstringify(Val(db.ret.item)))
                    ELSE Raised))

----------------------------------------------------------------------------
\* State.

VARIABLES
    todo_items,   \* the rows of the table todo_items
    generated,    \* how many ids gen_random_uuid() has produced
    now,          \* the database clock, CURRENT_TIMESTAMP
    last,         \* the last tool call: its arguments, headers and what came back
    issued,       \* history: the ids of the items createTodo has returned
    deleted,      \* history: the ids deleteTodo has reported deleted
    wire,         \* the last tools/call request the transport received
    pool,         \* the connection pool: its maximum, the clients checked out
                  \* and the queue of pending connect requests
    tasks         \* the store operations in progress, statement by statement

vars == <<todo_items, generated, now, last, issued, deleted, wire, pool, tasks>>

NoHeaders == [user |-> None, email |-> None, name |-> None]

NoCall ==
    [op |-> "none", params |-> None, headers |-> NoHeaders,
     valid |-> FALSE, calls |-> 0, ret |-> NoRet, resp |-> Content("none", 0)]

\* new Pool({ max }): no client checked out, nobody waiting
NewPool(max) == [max |-> max, checkedOut |-> 0, waiting |-> <<>>]

Tasks == 1..MaxTasks

\* a task slot in which no store operation has started
NoTask ==
    [op |-> "none", pc |-> "idle", updates |-> None, nested |-> FALSE,
     holds |-> 0, acquired |-> 0, released |-> 0, ret |-> NoRet]

\* no request yet
NoRequest ==
    [name |-> "none", args |-> None, headers |-> NoHeaders, status |-> "none",
     passed |-> None]

Init ==
    /\ todo_items = {}
    /\ generated = 0
    /\ now = 0
    /\ last = NoCall
    /\ issued = {}
    /\ deleted = {}
    /\ wire = NoRequest
    /\ pool = NewPool(DefaultPoolMax)
    /\ tasks = [t \in Tasks |-> NoTask]

\* the effect of one run of a dispatcher method on the store and the history
Effect(op, params, headers, out) ==
    /\ todo_items' = out.tbl
    /\ last' = [op |-> op, params |-> params, headers |-> headers,
                valid |-> out.valid, calls |-> out.calls, ret |-> out.ret,
                resp |-> out.resp]
    /\ generated' = IF op = "createTodo" /\ out.ret.kind = "item"
                    THEN generated + 1 ELSE generated
    /\ issued' = IF op = "createTodo" /\ out.ret.kind = "item"
                 THEN issued \cup {Val(out.ret.item).id} ELSE issued
    /\ deleted' = IF op = "deleteTodo" /\ out.ret.kind = "bool" /\ out.ret.flag
                  THEN deleted \cup {Val(params).id[1]} ELSE deleted
    /\ UNCHANGED now

\* a dispatcher method called directly
Called(op, params, headers, out) ==
    /\ Effect(op, params, headers, out)
    /\ UNCHANGED <<wire, pool, tasks>>

----------------------------------------------------------------------------
\* Actions: one per tool, over the arguments a specification draws from In.

CreateTodo(In) ==
    /\ generated < MaxIds
    /\ \E params \in In.creates, headers \in In.headers, fail \in In.fails :
         Called("createTodo", Some(params), headers,
                createTodo(todo_items, params, headers, generated, now, fail))

GetTodo(In) ==
    \E id \in In.ids, headers \in In.headers, fail \in In.fails :
      Called("getTodo", Some([id |-> id]), headers,
             getTodo(todo_items, [id |-> id], headers, fail))

ListTodos(In) ==
    \E params \in In.filters, headers \in In.headers, fail \in In.fails :
      \E out \in listTodos(todo_items, params, headers, fail) :
          Called("listTodos", Some(params), headers, out)

\* the arguments of updateTodo: an id beside the fields to update
WithId(id, updates) ==
    [id |-> id, title |-> updates.title, description |-> updates.description,
     completed |-> updates.completed, priority |-> updates.priority,
     due_date |-> updates.due_date]

UpdateTodo(In) ==
    \E id \in In.ids, updates \in In.updates, headers \in In.headers, fail \in In.fails :
      Called("updateTodo", Some(WithId(id, updates)), headers,
             updateTodo(todo_items, WithId(id, updates), headers, now, fail))

DeleteTodo(In) ==
    \E id \in In.ids, headers \in In.headers, fail \in In.fails :
      Called("deleteTodo", Some([id |-> id]), headers,
             deleteTodo(todo_items, [id |-> id], headers, fail))

CompleteTodo(In) ==
    \E id \in In.ids, headers \in In.headers, fail \in In.fails :
      Called("completeTodo", Some([id |-> id]), headers,
             completeTodo(todo_items, [id |-> id], headers, now, fail))

\* getTodoStats ignores its arguments
GetTodoStats(In) ==
    \E headers \in In.headers, fail \in In.fails :
      Called("getTodoStats", None, headers,
             getTodoStats(todo_items, headers, now, fail))

GetTodoResources(In) ==
    \E params \in In.filters, headers \in In.headers, fail \in In.fails :
      \E out \in getTodoResources(todo_items, params, headers, fail) :
          Called("getTodoResources", Some(params), headers, out)

\* a resource read: the transport hands over the address and the headers
ReadTodoResource(In) ==
    \E uri \in In.uris, headers \in In.headers, fail \in In.fails :
      Called("readTodoResource", Some([uri |-> uri]), headers,
             readTodoResource(todo_items, uri, headers, fail))

\* time passes between two calls
Tick(In) ==
    /\ now < In.maxTime
    /\ now' = now + 1
    /\ UNCHANGED <<todo_items, generated, last, issued, deleted, wire, pool, tasks>>

----------------------------------------------------------------------------
\* The tool surface: createMcpServer registers tools with the transport, each
\* with a raw zod shape and a callback. The transport answers a tools/call for
\* a name that is not registered with "tool not found"; for a registered name
\* it parses the arguments with z.object(shape), which drops every key the
\* shape does not name, answers "invalid params" when the parse fails, and
\* calls the callback with the parsed value otherwise.

\* the names getTools() describes
ToolNames ==
    {"createTodo", "getTodo", "listTodos", "updateTodo", "deleteTodo",
     "getTodoStats", "completeTodo", "getTodoResources"}

\* the names createMcpServer registers with server.tool(...)
Registered ==
    {"createTodo", "getTodo", "listTodos", "updateTodo", "deleteTodo", "getTodoStats"}

\* the arguments of a request: every key any tool reads, each present or not
NoArgs ==
    [id |-> None, title |-> None, description |-> None, completed |-> None,
     priority |-> None, due_date |-> None, search |-> None, limit |-> None,
     offset |-> None]

\* the keys of the shape each tool is registered with
RegisteredShape(name) ==
    CASE name = "createTodo"   -> {"title", "description", "priority", "due_date"}
      [] name = "getTodo"      -> {"id"}
      [] name = "listTodos"    -> {"completed", "priority", "search", "limit", "offset"}
      [] name = "updateTodo"   -> {"title", "description", "completed", "priority",
                                   "due_date"}
      [] name = "deleteTodo"   -> {"id"}
      [] name = "getTodoStats" -> {}

\* the issues z.object(shape) finds in the arguments
RegisteredIssues(name, args) ==
    CASE name = "createTodo"   -> CreateTodoSchemaIssues(args)
      [] name = "getTodo"      -> IdSchemaIssues(args)
      [] name = "listTodos"    -> TodoFilterSchemaIssues(args)
      [] name = "updateTodo"   -> UpdateTodoSchemaIssues(args)
      [] name = "deleteTodo"   -> IdSchemaIssues(args)
      [] name = "getTodoStats" -> {}

\* the value z.object(shape) parses the arguments to: keys outside the shape
\* are dropped and the defaults of the shape are filled in
RegisteredData(name, args) ==
    LET kept == [k \in DOMAIN args |->
                    IF k \in RegisteredShape(name) THEN args[k] ELSE None]
    IN  CASE name = "createTodo" ->
                [kept EXCEPT !.priority = IF IsSome(@) THEN @ ELSE Some("medium")]
          [] name = "listTodos" ->
                [kept EXCEPT !.limit = IF IsSome(@) THEN @ ELSE Some(DefaultLimit),
                             !.offset = IF IsSome(@) THEN @ ELSE Some(DefaultOffset)]
          [] OTHER -> kept

\* the arguments each callback hands to the dispatcher
CallbackArgs(name, data) ==
    CASE name = "createTodo" ->
            [title |-> data.title, description |-> data.description,
             priority |-> data.priority, due_date |-> data.due_date]
      [] name \in {"getTodo", "deleteTodo"} -> [id |-> data.id]
      [] name = "listTodos" ->
            [completed |-> data.completed, priority |-> data.priority,
             search |-> data.search, limit |-> data.limit, offset |-> data.offset]
      [] name = "updateTodo" ->
            [id |-> data.id, title |-> data.title, description |-> data.description,
             completed |-> data.completed, priority |-> data.priority,
             due_date |-> data.due_date]
      [] name = "getTodoStats" -> data

\* a request the transport answers itself, without calling the dispatcher
Answered(name, args, headers, status) ==
    /\ wire' = [name |-> name, args |-> Some(args), headers |-> headers,
                status |-> status, passed |-> None]
    /\ UNCHANGED <<todo_items, generated, now, last, issued, deleted, pool, tasks>>

\* the request reaches a callback iff the name is registered and the
\* arguments pass the registered shape
Routed(name, args) == name \in Registered /\ RegisteredIssues(name, args) = {}

\* what the callback hands to the dispatcher method
Passed(name, args) == CallbackArgs(name, RegisteredData(name, args))

\* a request for a tool name, up to the call of the dispatcher method
ToolsCall(name, args, headers) ==
    IF name \notin Registered THEN Answered(name, args, headers, "tool not found")
    ELSE IF RegisteredIssues(name, args) # {}
         THEN Answered(name, args, headers, "invalid params")
    ELSE /\ wire' = [name |-> name, args |-> Some(args), headers |-> headers,
                     status |-> "called", passed |-> Some(Passed(name, args))]
         /\ UNCHANGED <<pool, tasks>>

PostCreateTodo(In) ==
    \E args \in In.args, headers \in In.headers :
      /\ ToolsCall("createTodo", args, headers)
      /\ IF Routed("createTodo", args)
         THEN LET p == Passed("createTodo", args)
              IN  /\ generated < MaxIds
                  /\ Effect("createTodo", Some(p), headers,
                            createTodo(todo_items, p, headers, generated, now, FALSE))
         ELSE TRUE

PostGetTodo(In) ==
    \E args \in In.args, headers \in In.headers :
      /\ ToolsCall("getTodo", args, headers)
      /\ IF Routed("getTodo", args)
         THEN LET p == Passed("getTodo", args)
              IN  Effect("getTodo", Some(p), headers,
                         getTodo(todo_items, p, headers, FALSE))
         ELSE TRUE

PostListTodos(In) ==
    \E args \in In.args, headers \in In.headers :
      /\ ToolsCall("listTodos", args, headers)
      /\ IF Routed("listTodos", args)
         THEN LET p == Passed("listTodos", args)
              IN  \E out \in listTodos(todo_items, p, headers, FALSE) :
                      Effect("listTodos", Some(p), headers, out)
         ELSE TRUE

PostUpdateTodo(In) ==
    \E args \in In.args, headers \in In.headers :
      /\ ToolsCall("updateTodo", args, headers)
      /\ IF Routed("updateTodo", args)
         THEN LET p == Passed("updateTodo", args)
              IN  Effect("updateTodo", Some(p), headers,
                         updateTodo(todo_items, p, headers, now, FALSE))
         ELSE TRUE

PostDeleteTodo(In) ==
    \E args \in In.args, headers \in In.headers :
      /\ ToolsCall("deleteTodo", args, headers)
      /\ IF Routed("deleteTodo", args)
         THEN LET p == Passed("deleteTodo", args)
              IN  Effect("deleteTodo", Some(p), headers,
                         deleteTodo(todo_items, p, headers, FALSE))
         ELSE TRUE

PostGetTodoStats(In) ==
    \E args \in In.args, headers \in In.headers :
      /\ ToolsCall("getTodoStats", args, headers)
      /\ IF Routed("getTodoStats", args)
         THEN LET p == Passed("getTodoStats", args)
              IN  Effect("getTodoStats", None, headers,
                         getTodoStats(todo_items, headers, now, FALSE))
         ELSE TRUE

PostCompleteTodo(In) ==
    \E args \in In.args, headers \in In.headers :
      /\ ToolsCall("completeTodo", args, headers)
      /\ IF Routed("completeTodo", args)
         THEN LET p == Passed("completeTodo", args)
              IN  Effect("completeTodo", Some(p), headers,
                         completeTodo(todo_items, p, headers, now, FALSE))
         ELSE TRUE

PostGetTodoResources(In) ==
    \E args \in In.args, headers \in In.headers :
      /\ ToolsCall("getTodoResources", args, headers)
      /\ IF Routed("getTodoResources", args)
         THEN LET p == Passed("getTodoResources", args)
              IN  \E out \in getTodoResources(todo_items, p, headers, FALSE) :
                      Effect("getTodoResources", Some(p), headers, out)
         ELSE TRUE

----------------------------------------------------------------------------
\* The arguments the specifications draw from.

Alice == [user |-> Some("alice"), email |-> Some("alice@example.com"), name |-> Some("Alice")]
CreateArgs(title, description, priority, due_date) ==
    [title |-> title, description |-> description, priority |-> priority,
     due_date |-> due_date]

UpdateArgs(title, description, completed, priority, due_date) ==
    [title |-> title, description |-> description, completed |-> completed,
     priority |-> priority, due_date |-> due_date]

FilterArgs(completed, priority, search, limit, offset) ==
    [completed |-> completed, priority |-> priority, search |-> search,
     limit |-> limit, offset |-> offset]

NoUpdates == UpdateArgs(None, None, None, None, None)
NoFilters == FilterArgs(None, None, None, None, None)

\* arguments each breaking one constraint of a schema
InvalidCreates ==
    {CreateArgs(None, None, None, None),
     CreateArgs(Some(<<>>), None, None, None),
     CreateArgs(Some(Rep("a", TitleMax + 1)), None, None, None),
     CreateArgs(Some(<<"a">>), Some(Rep("b", DescMax + 1)), None, None),
     CreateArgs(Some(<<"a">>), None, Some("urgent"), None),
     CreateArgs(Some(<<"a">>), None, None, Some(NotIso))}

InvalidUpdates ==
    {[NoUpdates EXCEPT !.title = Some(<<>>)],
     [NoUpdates EXCEPT !.title = Some(Rep("a", TitleMax + 1))],
     [NoUpdates EXCEPT !.description = Some(Rep("b", DescMax + 1))],
     [NoUpdates EXCEPT !.priority = Some("urgent"), !.completed = Some(TRUE)],
     [NoUpdates EXCEPT !.due_date = Some(NotIso), !.completed = Some(TRUE)]}

InvalidFilters ==
    {[NoFilters EXCEPT !.priority = Some("urgent")],
     [NoFilters EXCEPT !.limit = Some(LimitMin - 1)],
     [NoFilters EXCEPT !.limit = Some(LimitMax + 1)],
     [NoFilters EXCEPT !.offset = Some(0 - 1)]}

\* every id the model can generate, one it never generates, and a missing id
Ids == {Some(i) : i \in 1..(MaxIds + 1)} \cup {None}

\* Spec: the life of an item under two callers (create, read, complete,
\* delete), without store failures
CoreIn ==
    [creates |-> {CreateArgs(Some(<<"a">>), None, None, None),
                  CreateArgs(Some(<<"a">>), None, Some("high"), None),
                  CreateArgs(None, None, None, None)},
     updates |-> {NoUpdates,
                  [NoUpdates EXCEPT !.completed = Some(FALSE)],
                  [NoUpdates EXCEPT !.title = Some(<<>>)]},
     ids     |-> Ids,
     filters |-> {NoFilters, [NoFilters EXCEPT !.limit = Some(LimitMin - 1)]},
     headers |-> {Alice, NoHeaders},
     fails   |-> {FALSE},
     maxTime |-> MaxTime]

Next ==
    \/ CreateTodo(CoreIn)
    \/ GetTodo(CoreIn)
    \/ ListTodos(CoreIn)
    \/ UpdateTodo(CoreIn)
    \/ DeleteTodo(CoreIn)
    \/ CompleteTodo(CoreIn)
    \/ GetTodoStats(CoreIn)
    \/ GetTodoResources(CoreIn)
    \/ Tick(CoreIn)

Spec == Init /\ [][Next]_vars

\* SpecItem: the fields of an item over time (updates, due dates, stats)
ItemIn ==
    [creates |-> {CreateArgs(Some(<<"a">>), None, None, None),
                  CreateArgs(Some(<<"a">>), None, None, Some(Iso(0))),
                  CreateArgs(None, None, None, None)},
     updates |-> {NoUpdates,
                  [NoUpdates EXCEPT !.title = Some(<<"a">>)],
                  [NoUpdates EXCEPT !.completed = Some(FALSE)]},
     ids     |-> {Some(i) : i \in 1..MaxIds} \cup {None},
     filters |-> {NoFilters},
     headers |-> {Alice, NoHeaders},
     fails   |-> {FALSE},
     maxTime |-> MaxTime + 1]

NextItem ==
    \/ CreateTodo(ItemIn)
    \/ GetTodo(ItemIn)
    \/ ListTodos(ItemIn)
    \/ UpdateTodo(ItemIn)
    \/ DeleteTodo(ItemIn)
    \/ CompleteTodo(ItemIn)
    \/ GetTodoStats(ItemIn)
    \/ GetTodoResources(ItemIn)
    \/ Tick(ItemIn)

SpecItem == Init /\ [][NextItem]_vars

\* SpecErrors: arguments that break a schema, arguments at the edge of one,
\* and store methods that fail
ErrorsIn ==
    [creates |-> {CreateArgs(Some(<<"a">>), None, None, None),
                  CreateArgs(Some(Rep("a", TitleMax)), Some(Rep("b", DescMax)),
                             Some("low"), Some(Iso(1)))}
                 \cup InvalidCreates,
     updates |-> {NoUpdates, [NoUpdates EXCEPT !.completed = Some(TRUE)]}
                 \cup InvalidUpdates,
     ids     |-> {Some(1), Some(MaxIds + 1), None},
     filters |-> {NoFilters,
                  [NoFilters EXCEPT !.limit = Some(LimitMin), !.offset = Some(0)],
                  [NoFilters EXCEPT !.limit = Some(LimitMax)]}
                 \cup InvalidFilters,
     headers |-> {Alice},
     fails   |-> BOOLEAN,
     maxTime |-> MaxTime]

NextErrors ==
    \/ CreateTodo(ErrorsIn)
    \/ GetTodo(ErrorsIn)
    \/ ListTodos(ErrorsIn)
    \/ UpdateTodo(ErrorsIn)
    \/ DeleteTodo(ErrorsIn)
    \/ CompleteTodo(ErrorsIn)
    \/ GetTodoStats(ErrorsIn)
    \/ GetTodoResources(ErrorsIn)
    \/ Tick(ErrorsIn)

SpecErrors == Init /\ [][NextErrors]_vars

\* SpecStored: what create, update, complete and delete leave in the table,
\* for arguments at the edges of the schemas and beyond them
StoredIn ==
    [creates |-> {CreateArgs(Some(<<"a">>), None, None, None),
                  CreateArgs(Some(Rep("a", TitleMax)), Some(Rep("b", DescMax)),
                             Some("low"), Some(Iso(1)))}
                 \cup InvalidCreates,
     updates |-> {[NoUpdates EXCEPT !.title = Some(Rep("a", TitleMax)),
                                    !.description = Some(Rep("b", DescMax))],
                  [NoUpdates EXCEPT !.description = Some(<<>>)]}
                 \cup InvalidUpdates,
     ids     |-> {Some(i) : i \in 1..MaxIds},
     filters |-> {NoFilters},
     headers |-> {Alice, NoHeaders},
     fails   |-> BOOLEAN,
     maxTime |-> MaxTime]

NextStored ==
    \/ CreateTodo(StoredIn)
    \/ UpdateTodo(StoredIn)
    \/ CompleteTodo(StoredIn)
    \/ DeleteTodo(StoredIn)

SpecStored == Init /\ [][NextStored]_vars

\* SpecFrame: what update, complete and delete leave alone, for one owner
\* who sends two different email and name headers
AliceRenamed ==
    [user |-> Some("alice"), email |-> Some("alice@work.example"),
     name |-> Some("Alice W.")]

FrameIn ==
    [creates |-> {CreateArgs(Some(<<"a">>), Some(<<"b">>), Some("low"), Some(Iso(0)))},
     updates |-> {NoUpdates,
                  [NoUpdates EXCEPT !.title = Some(<<"b">>)],
                  [NoUpdates EXCEPT !.description = Some(<<>>),
                                    !.priority = Some("high"),
                                    !.due_date = Some(Iso(1))]},
     ids     |-> {Some(i) : i \in 1..MaxIds},
     filters |-> {NoFilters},
     headers |-> {Alice, AliceRenamed},
     fails   |-> {FALSE},
     maxTime |-> MaxTime]

NextFrame ==
    \/ CreateTodo(FrameIn)
    \/ UpdateTodo(FrameIn)
    \/ CompleteTodo(FrameIn)
    \/ DeleteTodo(FrameIn)
    \/ Tick(FrameIn)

SpecFrame == Init /\ [][NextFrame]_vars

\* SpecList: listing, searching and paging over titles and descriptions
ListIn ==
    [creates |-> {CreateArgs(Some(<<"a">>), None, None, None),
                  CreateArgs(Some(<<"b">>), Some(<<"A", "b">>), None, None),
                  CreateArgs(Some(<<>>), None, None, None)},
     updates |-> {NoUpdates},
     ids     |-> {Some(1), None},
     filters |-> {[NoFilters EXCEPT !.search = Some(s)] :
                      s \in {<<>>, <<"a">>, <<"A", "B">>, <<"_">>, <<"%">>}}
                 \cup {[NoFilters EXCEPT !.limit = Some(1), !.offset = o] :
                           o \in {None, Some(1)}}
                 \cup {[NoFilters EXCEPT !.completed = Some(FALSE), !.limit = Some(1)],
                       [NoFilters EXCEPT !.priority = Some("medium"),
                                         !.search = Some(<<"B">>)],
                       [NoFilters EXCEPT !.offset = Some(0 - 1)]},
     headers |-> {Alice, NoHeaders},
     fails   |-> {FALSE},
     maxTime |-> MaxTime]

NextList ==
    \/ CreateTodo(ListIn)
    \/ GetTodo(ListIn)
    \/ ListTodos(ListIn)
    \/ UpdateTodo(ListIn)
    \/ DeleteTodo(ListIn)
    \/ CompleteTodo(ListIn)
    \/ GetTodoStats(ListIn)
    \/ GetTodoResources(ListIn)
    \/ Tick(ListIn)

SpecList == Init /\ [][NextList]_vars

\* SpecResources: resource links and resource reads beside the tools working
\* on the same ids, with store methods that may fail
ResourcesIn ==
    [creates |-> {CreateArgs(Some(<<"a">>), None, None, None),
                  CreateArgs(Some(<<"b">>), Some(<<"b">>), Some("high"), Some(Iso(1)))},
     ids     |-> {Some(i) : i \in 1..(MaxIds + 1)},
     filters |-> {NoFilters,
                  [NoFilters EXCEPT !.limit = Some(1)],
                  [NoFilters EXCEPT !.priority = Some("high")],
                  [NoFilters EXCEPT !.limit = Some(LimitMin - 1)]},
     uris    |-> {TodoUri(i) : i \in 1..(MaxIds + 1)} \cup {<<"todo://">>, <<"todo://", "x">>},
     headers |-> {Alice, NoHeaders},
     fails   |-> BOOLEAN,
     maxTime |-> MaxTime]

NextResources ==
    \/ CreateTodo(ResourcesIn)
    \/ GetTodo(ResourcesIn)
    \/ DeleteTodo(ResourcesIn)
    \/ CompleteTodo(ResourcesIn)
    \/ GetTodoResources(ResourcesIn)
    \/ ReadTodoResource(ResourcesIn)
    \/ Tick(ResourcesIn)

SpecResources == Init /\ [][NextResources]_vars

\* SpecSurface: requests arriving through the transport, with headers that
\* are present, missing or empty
EmptyUser == [user |-> Some(""), email |-> Some("alice@example.com"), name |-> Some("")]

SurfaceIn ==
    [args    |-> {NoArgs,
                  [NoArgs EXCEPT !.title = Some(<<"a">>)],
                  [NoArgs EXCEPT !.id = Some(1)],
                  [NoArgs EXCEPT !.id = Some(1), !.title = Some(<<"b">>),
                                 !.completed = Some(TRUE), !.priority = Some("high")]},
     headers |-> {NoHeaders, EmptyUser}]

NextSurface ==
    \/ PostCreateTodo(SurfaceIn)
    \/ PostGetTodo(SurfaceIn)
    \/ PostListTodos(SurfaceIn)
    \/ PostUpdateTodo(SurfaceIn)
    \/ PostDeleteTodo(SurfaceIn)
    \/ PostGetTodoStats(SurfaceIn)
    \/ PostCompleteTodo(SurfaceIn)
    \/ PostGetTodoResources(SurfaceIn)

SpecSurface == Init /\ [][NextSurface]_vars

----------------------------------------------------------------------------
\* The store, statement by statement: a store method is an async function,
\* and it runs in the steps between its awaits (pool.connect(), each
\* client.query(), the finally block). Steps of different operations
\* interleave; the code between two awaits runs without interruption.

\* pool.connect(): the request joins the queue of the pool
PoolConnect(p, t) == [p EXCEPT !.waiting = Append(@, t)]

\* what the operations in progress work with
TaskUser == extractUserInfo(Alice)
TaskId == 1
TaskTodo == CreateTodoSchemaData(CreateArgs(Some(<<"a">>), None, None, None))
TaskFilters == TodoFilterSchemaData(NoFilters)

StoreOps ==
    {"createTodo", "getTodoById", "getAllTodos", "updateTodo", "deleteTodo",
     "getTodoStats"}

\* SELECT COUNT(*) ... of getAllTodos
CountQuery(tbl, userId, filters) ==
    Cardinality({r \in tbl : WhereFilters(r, userId, filters)})

\* SELECT * ... ORDER BY ... LIMIT ... OFFSET ... of getAllTodos: the pages it
\* can return
PageQuery(tbl, userId, filters) ==
    {ret.items : ret \in DbGetAllTodos(tbl, userId, filters)}

\* a DELETE that reports the rows it matched and leaves them in the table
StatementDeleteKeepsRow(task, tbl, n, ts) ==
    CASE task.op = "createTodo" -> DbCreateTodo(tbl, TaskTodo, TaskUser, GenId(n, tbl), ts)
      [] task.op = "getTodoById" \/ task.nested -> DbGetTodoById(tbl, TaskId, TaskUser.id)
      [] task.op = "getAllTodos" ->
            [tbl |-> tbl, ret |-> ListRet(<<>>, CountQuery(tbl, TaskUser.id, TaskFilters))]
      [] task.op = "updateTodo" /\ ~task.nested ->
            DbUpdateTodo(tbl, TaskId, Val(task.updates), TaskUser.id, ts)
      [] task.op = "deleteTodo" ->
            [tbl |-> tbl, ret |-> DbDeleteTodo(tbl, TaskId, TaskUser.id).ret]
      [] task.op = "getTodoStats" -> DbGetTodoStats(tbl, TaskUser.id, ts)

\* the first statement of a store method (the only one, but for getAllTodos)
Statement(task, tbl, n, ts) ==
    CASE task.op = "createTodo" -> DbCreateTodo(tbl, TaskTodo, TaskUser, GenId(n, tbl), ts)
      [] task.op = "getTodoById" \/ task.nested -> DbGetTodoById(tbl, TaskId, TaskUser.id)
      [] task.op = "getAllTodos" ->
            [tbl |-> tbl, ret |-> ListRet(<<>>, CountQuery(tbl, TaskUser.id, TaskFilters))]
      [] task.op = "updateTodo" /\ ~task.nested ->
            DbUpdateTodo(tbl, TaskId, Val(task.updates), TaskUser.id, ts)
      [] task.op = "deleteTodo" -> DbDeleteTodo(tbl, TaskId, TaskUser.id)
      [] task.op = "getTodoStats" -> DbGetTodoStats(tbl, TaskUser.id, ts)

\* a finally block that is skipped when the statement threw
FinallyOnSuccess(task) ==
    IF task.ret.kind = "threw" THEN task
    ELSE [task EXCEPT !.holds = @ - 1, !.released = @ + 1]

\* finally { client.release() }
Finally(task) == [task EXCEPT !.holds = @ - 1, !.released = @ + 1]

\* return await this.getTodoById(id, userId): the client is kept until the
\* inner operation has finished
ReturnAwaitGetTodoById(task) == [task EXCEPT !.nested = TRUE, !.pc = "connect"]

\* if (setClauses.length === 0) return this.getTodoById(id, userId): the
\* inner operation asks the pool for a client, then the finally block of
\* updateTodo releases the outer client, in the same turn; the promise
\* returned settles as the inner one does
ReturnGetTodoById(task) ==
    Finally([task EXCEPT !.nested = TRUE, !.pc = "connect"])

\* a store method is called and runs up to its await this.pool.connect()
Dispatch(In) ==
    \E t \in Tasks, op \in In.ops, updates \in In.updates :
      /\ tasks[t].pc = "idle"
      /\ \A u \in Tasks : u < t => tasks[u].pc # "idle"
      /\ tasks' = [tasks EXCEPT ![t] =
                       [NoTask EXCEPT !.op = op, !.pc = "connect",
                                      !.updates = IF op = "updateTodo"
                                                  THEN Some(updates) ELSE None]]
      /\ pool' = PoolConnect(pool, t)
      /\ UNCHANGED <<todo_items, generated, now, last, issued, deleted, wire>>

\* the pool hands a client to the oldest pending request while fewer than
\* max clients are checked out
Connect(t) ==
    /\ pool.waiting # <<>>
    /\ Head(pool.waiting) = t
    /\ pool.checkedOut < pool.max
    /\ pool' = [pool EXCEPT !.waiting = Tail(@), !.checkedOut = @ + 1]
    /\ tasks' = [tasks EXCEPT ![t].pc = "query", ![t].holds = @ + 1,
                              ![t].acquired = @ + 1]
    /\ UNCHANGED <<todo_items, generated, now, last, issued, deleted, wire>>

\* the operation holds a client: updateTodo without SET clauses returns
\* through getTodoById; every other operation sends its statement, which the
\* database executes or fails
Query(t) ==
    LET task == tasks[t]
    IN  /\ task.pc = "query"
        /\ IF task.op = "updateTodo" /\ ~task.nested /\ NoSetClauses(Val(task.updates))
           THEN LET after == ReturnGetTodoById(task)
                IN  /\ tasks' = [tasks EXCEPT ![t] = after]
                    /\ pool' = [PoolConnect(pool, t) EXCEPT
                                   !.checkedOut = @ - (task.holds - after.holds)]
                    /\ UNCHANGED <<todo_items, generated>>
           ELSE \E fail \in BOOLEAN :
                  LET db == Store(fail, todo_items,
                                  Statement(task, todo_items, generated, now))
                  IN  /\ todo_items' = db.tbl
                      /\ generated' = IF task.op = "createTodo" /\ db.ret.kind = "item"
                                      THEN generated + 1 ELSE generated
                      /\ tasks' = [tasks EXCEPT
                                      ![t].ret = db.ret,
                                      ![t].pc = IF task.op = "getAllTodos"
                                                   /\ db.ret.kind # "threw"
                                                THEN "page" ELSE "release"]
                      /\ UNCHANGED pool
        /\ UNCHANGED <<now, last, issued, deleted, wire>>

\* the second statement of getAllTodos
Page(t) ==
    LET task == tasks[t]
    IN  /\ task.pc = "page"
        /\ \E fail \in BOOLEAN, items \in PageQuery(todo_items, TaskUser.id, TaskFilters) :
              tasks' = [tasks EXCEPT
                          ![t].ret = IF fail THEN Threw ELSE ListRet(items, task.ret.total),
                          ![t].pc = "release"]
        /\ UNCHANGED <<todo_items, generated, now, last, issued, deleted, wire, pool>>

\* the statement has returned or thrown: the finally block runs and the
\* method returns; a method still holding a client from an outer scope runs
\* that scope's finally block next
Release(t) ==
    LET task == tasks[t]
        after == Finally(task)
    IN  /\ task.pc = "release"
        /\ tasks' = [tasks EXCEPT ![t] =
                        [after EXCEPT !.pc = IF after.holds > 0 /\ after.holds < task.holds
                                             THEN "release" ELSE "done"]]
        /\ pool' = [pool EXCEPT !.checkedOut = @ - (task.holds - after.holds)]
        /\ UNCHANGED <<todo_items, generated, now, last, issued, deleted, wire>>

\* SpecPool: store operations in progress at the same time over a pool of
\* 1..MaxPool clients, with statements that may fail
PoolIn ==
    [ops     |-> StoreOps,
     updates |-> {NoUpdates, CompletedTrue}]

InitPool ==
    /\ todo_items = {}
    /\ generated = 0
    /\ now = 0
    /\ last = NoCall
    /\ issued = {}
    /\ deleted = {}
    /\ wire = NoRequest
    /\ pool \in {NewPool(max) : max \in 1..MaxPool}
    /\ tasks = [t \in Tasks |-> NoTask]

NextPool ==
    \/ Dispatch(PoolIn)
    \/ \E t \in Tasks : Connect(t)
    \/ \E t \in Tasks : Query(t)
    \/ \E t \in Tasks : Page(t)
    \/ \E t \in Tasks : Release(t)

SpecPool == InitPool /\ [][NextPool]_vars

\* SpecPoolLive: the event loop runs every continuation that is ready, the
\* pool serves its queue, and every statement sent returns
SpecPoolLive ==
    /\ SpecPool
    /\ \A t \in Tasks :
          /\ WF_vars(Connect(t))
          /\ WF_vars(Query(t))
          /\ WF_vars(Page(t))
          /\ WF_vars(Release(t))

\* SpecStats: the statistics of an owner who has up to MaxCount items, any
\* number of them completed
StatsIn ==
    [headers |-> {Alice},
     fails   |-> {FALSE}]

\* the table after total items were created and the first completed of them
\* completed
TableOf(total, completed) ==
    {IF i <= completed
     THEN SetClauses(InsertedRow(TaskTodo, TaskUser, i, 0), CompletedTrue, 0)
     ELSE InsertedRow(TaskTodo, TaskUser, i, 0) : i \in 1..total}

InitStats ==
    /\ \E total \in 0..MaxCount : \E completed \in 0..total :
          /\ todo_items = TableOf(total, completed)
          /\ generated = total
          /\ issued = 1..total
    /\ now = 0
    /\ last = NoCall
    /\ deleted = {}
    /\ wire = NoRequest
    /\ pool = NewPool(DefaultPoolMax)
    /\ tasks = [t \in Tasks |-> NoTask]

NextStats == GetTodoStats(StatsIn)

SpecStats == InitStats /\ [][NextStats]_vars

\* SpecRace: deletes and updates of one item by its owner, in progress at
\* the same time; the updates name the title, the completed flag (as
\* completeTodo does) or nothing
TitleB == [NoUpdates EXCEPT !.title = Some(<<"b">>)]

RaceIn ==
    [ops     |-> {"deleteTodo", "updateTodo"},
     updates |-> {TitleB, CompletedTrue, NoUpdates}]

InitRace ==
    /\ todo_items = TableOf(TaskId, 0)
    /\ generated = TaskId
    /\ issued = {TaskId}
    /\ now = 0
    /\ last = NoCall
    /\ deleted = {}
    /\ wire = NoRequest
    /\ pool \in {NewPool(max) : max \in 1..MaxPool}
    /\ tasks = [t \in Tasks |-> NoTask]

NextRace ==
    \/ Dispatch(RaceIn)
    \/ \E t \in Tasks : Connect(t)
    \/ \E t \in Tasks : Query(t)
    \/ \E t \in Tasks : Release(t)

SpecRace == InitRace /\ [][NextRace]_vars

----------------------------------------------------------------------------
\* Properties. A step is a tool call iff it leaves the clock alone; last'
\* then describes that call and the unprimed variables the state it ran in.

CallStep == now' = now

Caller(call) == extractUserInfo(call.headers)

\* the id argument of a call that has one
IdOf(call) == Val(Val(call.params).id)

OwnedBy(tbl, userId) == {r \in tbl : r.user_id = userId}

IdOps == {"getTodo", "updateTodo", "deleteTodo", "completeTodo"}
ListOps == {"listTodos", "getTodoResources"}

\* the updates a call of updateTodo or completeTodo hands to the store
UpdatesIn(call) ==
    IF call.op = "completeTodo" THEN CompletedTrue ELSE UpdatesOf(Val(call.params))

\* C1: owner isolation. A call on an id that another identity owns returns
\* what it returns for an id never created (absent, false, "not found") and
\* changes no item; and whatever a caller's get, update, delete, list or
\* stats call returns is what it returns on the table with every other
\* owner's items taken out.
OwnerIsolation ==
    [][(CallStep /\ last'.valid /\ last'.ret.kind # "threw") =>
         LET u == Caller(last').id
             own == OwnedBy(todo_items, u)
             op == last'.op
         IN  /\ (todo_items \ own) \subseteq todo_items'
             /\ op \in IdOps =>
                  \A x \in todo_items \ own :
                      x.id = IdOf(last') =>
                          /\ last'.ret = IF op = "deleteTodo" THEN BoolRet(FALSE) ELSE Absent
                          /\ last'.resp = Content("notfound", 1)
                          /\ todo_items' = todo_items
             /\ op = "getTodo" => last'.ret = DbGetTodoById(own, IdOf(last'), u).ret
             /\ op = "deleteTodo" => last'.ret = DbDeleteTodo(own, IdOf(last'), u).ret
             /\ op \in {"updateTodo", "completeTodo"} =>
                  last'.ret = DbUpdateTodo(own, IdOf(last'), UpdatesIn(last'), u, now).ret
             /\ op \in ListOps =>
                  last'.ret \in DbGetAllTodos(own, u, TodoFilterSchemaData(Val(last'.params)))
             /\ op = "getTodoStats" => last'.ret = DbGetTodoStats(own, u, now).ret
      ]_vars

\* C1 witness: a delete of another owner's item was answered false and the
\* item is still there
OwnerIsolationWitness ==
    /\ last.op = "deleteTodo"
    /\ last.ret = BoolRet(FALSE)
    /\ \E x \in todo_items : Some(x.id) = Val(last.params).id /\ x.user_id # Caller(last).id

\* C4: the item a valid create returns has created_at = updated_at, an id no
\* earlier create returned (deleted items included), completed = false, the
\* supplied priority or medium, and the owner the headers give.
CreateReturnsFreshItem ==
    [][(CallStep /\ last'.op = "createTodo" /\ last'.ret.kind # "threw") =>
         LET p == Val(last'.params)
             who == Caller(last')
         IN  CreateTodoSchemaIssues(p) = {} =>
               /\ last'.ret.kind = "item"
               /\ LET it == Val(last'.ret.item)
                  IN  /\ it.created_at = it.updated_at
                      /\ it.id \notin issued
                      /\ \A r \in todo_items : r.id # it.id
                      /\ it.completed = FALSE
                      /\ it.priority = IF IsSome(p.priority) THEN Val(p.priority)
                                       ELSE "medium"
                      /\ it.user_id = who.id
                      /\ it.user_email = who.email
                      /\ it.user_name = who.name
                      /\ \E r \in todo_items' :
                            /\ mapRowToTodoItem(r) = it
                            /\ r.created_at = r.updated_at
      ]_vars

\* C4 witness: a create without priority, after another item was deleted,
\* returned an item of priority medium
CreateReturnsFreshItemWitness ==
    /\ last.op = "createTodo"
    /\ last.ret.kind = "item"
    /\ Val(last.params).priority = None
    /\ Val(last.ret.item).priority = "medium"
    /\ deleted # {}

\* C10: delete returns true iff it removed an item of that id and owner; a
\* deleted id stays deleted: delete on it returns false, get and update
\* return absent, list and stats do not count it, no create returns it.
DeleteIsFinal ==
    [][(CallStep /\ last'.valid /\ last'.ret.kind # "threw") =>
         LET u == Caller(last').id
             op == last'.op
         IN  /\ op = "deleteTodo" =>
                  LET hit == {r \in todo_items : r.id = IdOf(last') /\ r.user_id = u}
                  IN  /\ last'.ret = BoolRet(hit # {})
                      /\ todo_items' = todo_items \ hit
                      /\ \A r \in todo_items' : r.id # IdOf(last') \/ r.user_id # u
             /\ (op \in IdOps /\ IdOf(last') \in deleted) =>
                  last'.ret = IF op = "deleteTodo" THEN BoolRet(FALSE) ELSE Absent
             /\ op \in ListOps =>
                  \A i \in 1..Len(last'.ret.items) : last'.ret.items[i].id \notin deleted
             /\ op = "getTodoStats" =>
                  last'.ret.stats.total =
                      Cardinality({r \in OwnedBy(todo_items, u) : r.id \notin deleted})
             /\ (op = "createTodo" /\ last'.ret.kind = "item") =>
                  Val(last'.ret.item).id \notin deleted
             /\ \A r \in todo_items' : r.id \notin deleted'
      ]_vars

\* C10 witness: the second delete of an id was answered false
DeleteIsFinalWitness ==
    /\ last.op = "deleteTodo"
    /\ last.ret = BoolRet(FALSE)
    /\ IsSome(Val(last.params).id)
    /\ IdOf(last) \in deleted


\* C2: every tool operation answers with a content response, whatever its
\* arguments and whatever the store does: a text block with a failure message
\* when the arguments break the schema, the store fails or the item is not
\* found; no exception leaves the method.
ToolsNeverRaise ==
    last.op # "none" =>
        /\ last.resp.kind = "content"
        /\ last.resp.blocks >= 1
        /\ (~last.valid \/ last.ret.kind = "threw") => last.resp.status = "error"
        /\ (last.ret.kind = "absent" \/ (last.ret.kind = "bool" /\ ~last.ret.flag)) =>
               last.resp.status = "notfound"

\* C2 witness: the store failed under completeTodo and the answer is a text
\* block with the failure
ToolsNeverRaiseWitness ==
    /\ last.op = "completeTodo"
    /\ last.ret.kind = "threw"
    /\ last.resp = Content("error", 1)

\* the schema violations C3 names, read off the arguments of a call
TitleBroken(p) == p.title # None /\ (Len(Val(p.title)) = 0 \/ Len(Val(p.title)) > 255)
FieldsBroken(p) ==
    \/ p.description # None /\ Len(Val(p.description)) > 1000
    \/ p.priority # None /\ Val(p.priority) \notin {"low", "medium", "high"}
    \/ p.due_date # None /\ ~Val(p.due_date).datetime
BreaksSchema(call) ==
    LET p == Val(call.params)
    IN  CASE call.op = "createTodo" -> p.title = None \/ TitleBroken(p) \/ FieldsBroken(p)
          [] call.op = "updateTodo" -> p.id = None \/ TitleBroken(p) \/ FieldsBroken(p)
          [] call.op \in {"getTodo", "deleteTodo", "completeTodo"} -> p.id = None
          [] call.op \in ListOps ->
                \/ p.priority # None /\ Val(p.priority) \notin {"low", "medium", "high"}
                \/ p.limit # None /\ (Val(p.limit) < 1 \/ Val(p.limit) > 100)
                \/ p.offset # None /\ Val(p.offset) < 0
          [] OTHER -> FALSE

\* C3: a call whose arguments break its schema makes no store call and
\* leaves every item as it was.
ValidationPrecedesStore ==
    [][(CallStep /\ BreaksSchema(last')) =>
         /\ last'.calls = 0
         /\ last'.ret = NoRet
         /\ todo_items' = todo_items
         /\ generated' = generated
      ]_vars

\* C3 witness: an update of the caller's own item with a broken field was
\* turned away before the store
ValidationPrecedesStoreWitness ==
    /\ last.op = "updateTodo"
    /\ BreaksSchema(last)
    /\ last.calls = 0
    /\ \E r \in todo_items :
          Some(r.id) = Val(last.params).id /\ r.user_id = Caller(last).id

\* C5: an update of the caller's item with no field returns the item and
\* changes nothing, updated_at included; with at least one field, even one
\* equal to the stored value, updated_at afterwards is >= updated_at before.
UpdateAdvancesUpdatedAt ==
    [][(CallStep /\ last'.op = "updateTodo" /\ last'.valid /\ last'.ret.kind # "threw") =>
         \A x \in todo_items :
             (x.id = IdOf(last') /\ x.user_id = Caller(last').id) =>
                 IF NoSetClauses(UpdatesOf(Val(last'.params)))
                 THEN /\ todo_items' = todo_items
                      /\ last'.ret = ItemRet(mapRowToTodoItem(x))
                 ELSE \E y \in todo_items' :
                          /\ y.id = x.id
                          /\ y.updated_at >= x.updated_at
                          /\ last'.ret = ItemRet(mapRowToTodoItem(y))
                          /\ Val(last'.ret.item).updated_at
                                 >= mapRowToTodoItem(x).updated_at
      ]_vars

\* C5 witness: an update to the title the item already had moved updated_at
\* past created_at
UpdateAdvancesUpdatedAtWitness ==
    /\ last.op = "updateTodo"
    /\ last.ret.kind = "item"
    /\ \E r \in todo_items :
          /\ Some(r.id) = Val(last.params).id
          /\ Val(last.params).title = Some(r.title)
          /\ r.updated_at = now
          /\ r.updated_at > r.created_at

\* C8: stats counts the caller's items only; total = completed + pending;
\* overdue <= pending; overdue is the number of the caller's incomplete
\* items with a due date strictly before now.
StatsAddUp ==
    [][(CallStep /\ last'.op = "getTodoStats" /\ last'.ret.kind # "threw") =>
         LET st == last'.ret.stats
             own == OwnedBy(todo_items, Caller(last').id)
         IN  /\ last'.ret.kind = "stats"
             /\ st.total = Cardinality(own)
             /\ st.completed = Cardinality({r \in own : r.completed})
             /\ st.total = st.completed + st.pending
             /\ st.overdue <= st.pending
             /\ st.overdue = Cardinality({r \in own : /\ ~r.completed
                                                      /\ r.due_date # None
                                                      /\ Val(r.due_date) < now})
      ]_vars

\* C8 witness: stats of a caller with one overdue item, while another owner
\* has an item too
StatsAddUpWitness ==
    /\ last.op = "getTodoStats"
    /\ last.ret.stats = [total |-> 1, completed |-> 0, pending |-> 1, overdue |-> 1]
    /\ Cardinality(todo_items) = 2

\* C9: a create without priority stores medium; completeTodo on the caller's
\* item sets completed, brings updated_at to the current time (>= before) and
\* leaves the other fields alone, moving the item from pending to completed;
\* stats of an owner whose only item is completed is {1, 1, 0, 0}.
CompleteScenario ==
    [][(CallStep /\ last'.valid /\ last'.ret.kind # "threw") =>
         LET u == Caller(last').id
             own == OwnedBy(todo_items, u)
         IN  /\ (last'.op = "createTodo" /\ Val(last'.params).priority = None) =>
                  /\ Val(last'.ret.item).priority = "medium"
                  /\ \E r \in todo_items' \ todo_items : r.priority = "medium"
             /\ last'.op = "completeTodo" =>
                  \A x \in own :
                      x.id = IdOf(last') =>
                          /\ todo_items' = (todo_items \ {x})
                                 \cup {[x EXCEPT !.completed = TRUE, !.updated_at = now]}
                          /\ now >= x.updated_at
                          /\ last'.ret.kind = "item"
                          /\ Val(last'.ret.item).completed
                          /\ LET before == DbGetTodoStats(todo_items, u, now).ret.stats
                                 after == DbGetTodoStats(todo_items', u, now).ret.stats
                                 moved == IF x.completed THEN 0 ELSE 1
                             IN  /\ after.completed = before.completed + moved
                                 /\ after.pending = before.pending - moved
                                 /\ after.total = before.total
             /\ (last'.op = "getTodoStats" /\ Cardinality(own) = 1
                 /\ \A x \in own : x.completed) =>
                  last'.ret.stats =
                      [total |-> 1, completed |-> 1, pending |-> 0, overdue |-> 0]
      ]_vars

\* C9 witness: stats {1, 1, 0, 0} for an owner whose one item, past its due
\* date, was completed after it was created
CompleteScenarioWitness ==
    /\ last.op = "getTodoStats"
    /\ last.ret.stats = [total |-> 1, completed |-> 1, pending |-> 0, overdue |-> 0]
    /\ \E x \in OwnedBy(todo_items, Caller(last).id) :
          /\ x.completed
          /\ x.priority = "medium"
          /\ x.updated_at > x.created_at
          /\ x.due_date # None /\ Val(x.due_date) < now

\* the filters of a list call as the schema parsed them
FiltersOf(call) == TodoFilterSchemaData(Val(call.params))

\* the same listing: the same caller, filters and page size
SameListing(c, d) ==
    /\ c.op = d.op
    /\ Caller(c).id = Caller(d).id
    /\ FiltersOf(c).completed = FiltersOf(d).completed
    /\ FiltersOf(c).priority = FiltersOf(d).priority
    /\ FiltersOf(c).search = FiltersOf(d).search
    /\ FiltersOf(c).limit = FiltersOf(d).limit

\* the ids of the items of a page, in its order
ItemIds(items) == [i \in 1..Len(items) |-> items[i].id]

IsList(call) == call.op \in ListOps /\ call.valid /\ call.ret.kind = "list"

\* C6: totalCount is the number of the caller's items passing the filters,
\* whatever the window; and the window at offset 0 followed, with no mutation
\* in between, by the window at offset limit returns every filtered item
\* exactly once when they are at most 2 * limit, items of equal created_at
\* included.
PagingCoversEachItemOnce ==
    [][(CallStep /\ IsList(last')) =>
         LET f == FiltersOf(last')
             passing == {r \in todo_items : WhereFilters(r, Caller(last').id, f)}
         IN  /\ last'.ret.total = Cardinality(passing)
             /\ (/\ IsList(last)
                 /\ SameListing(last, last')
                 /\ FiltersOf(last).offset = 0
                 /\ f.offset = f.limit
                 /\ Cardinality(passing) <= 2 * f.limit) =>
                    LET seen == ItemIds(last.ret.items) \o ItemIds(last'.ret.items)
                    IN  /\ Len(seen) = Cardinality(passing)
                        /\ {seen[i] : i \in 1..Len(seen)} = {r.id : r \in passing}
      ]_vars

\* s occurs in t as a substring when letter case is ignored
ContainsIgnoringCase(t, s) ==
    \E q \in 1..(Len(t) - Len(s) + 1) :
        \A k \in 1..Len(s) : Lower(t[q + k - 1]) = Lower(s[k])

\* C7: a list with search = s returns exactly the caller's items whose title
\* or description contains s as a substring, letter case ignored, also when s
\* holds % or _; an item without description is matched on its title alone.
SearchIsSubstringMatch ==
    (/\ IsList(last)
     /\ FiltersOf(last).search # None
     /\ FiltersOf(last).completed = None
     /\ FiltersOf(last).priority = None
     /\ FiltersOf(last).offset = 0
     /\ FiltersOf(last).limit >= Cardinality(todo_items)) =>
        LET s == Val(FiltersOf(last).search)
            returned == {last.ret.items[i].id : i \in 1..Len(last.ret.items)}
        IN  returned =
                {r.id : r \in {x \in OwnedBy(todo_items, Caller(last).id) :
                          \/ ContainsIgnoringCase(x.title, s)
                          \/ x.description # None
                             /\ ContainsIgnoringCase(Val(x.description), s)}}

\* C11: a resource read of todo://<id> returns the full item of that id when
\* the caller owns it; when there is no such item, when another identity owns
\* it or when the store fails, the read raises and returns no content, while
\* getTodo on the same id answers with a content response.
ReadRaisesWhereToolsAnswer ==
    [][(CallStep /\ last'.op = "readTodoResource"
        /\ \E id \in 1..(MaxIds + 1) : Val(last'.params).uri = TodoUri(id)) =>
         LET id == CHOOSE i \in 1..(MaxIds + 1) : Val(last'.params).uri = TodoUri(i)
             u == Caller(last').id
             hit == {r \in todo_items : r.id = id /\ r.user_id = u}
             tool == getTodo(todo_items, [id |-> Some(id)], last'.headers,
                             last'.ret.kind = "threw")
         IN  /\ todo_items' = todo_items
             /\ (hit # {} /\ last'.ret.kind # "threw") =>
                    \E r \in hit :
                        /\ last'.ret = ItemRet(mapRowToTodoItem(r))
                        /\ last'.resp =
                               Contents(TodoUri(id), JSONstringify(mapRowToTodoItem(r)))
             /\ (hit = {} \/ last'.ret.kind = "threw") =>
                    /\ last'.resp.kind = "raised"
                    /\ tool.resp.kind = "content"
                    /\ tool.resp.status \in {"notfound", "error"}
      ]_vars

\* C11 witness: a read of another owner's item raised
ReadRaisesWhereToolsAnswerWitness ==
    /\ last.op = "readTodoResource"
    /\ last.resp.kind = "raised"
    /\ last.ret = Absent
    /\ \E r \in todo_items :
          Val(last.params).uri = TodoUri(r.id) /\ r.user_id # Caller(last).id

\* C12: the response of getTodoResources holds one resource descriptor per
\* item of the caller's filtered and paginated list: address "todo://" + id,
\* display name the title, media type application/json; as many descriptors
\* as the list query returned items; and reading a descriptor's address as
\* the same caller returns that item.
ResourcesDescribeEachItem ==
    (last.op = "getTodoResources" /\ last.valid /\ last.ret.kind = "list") =>
        LET items == last.ret.items
            links == last.resp.links
        IN  /\ Len(links) = Len(items)
            /\ \A i \in 1..Len(items) :
                   /\ links[i].uri = TodoUri(items[i].id)
                   /\ links[i].name = items[i].title
                   /\ links[i].mimeType = "application/json"
                   /\ readTodoResource(todo_items, links[i].uri, last.headers, FALSE).ret
                          = ItemRet(items[i])

\* C13: the surface registered with the transport has one operation for
\* each of the eight tool names, and a request for any of these names is
\* routed to the dispatcher method of that name.
SurfaceExposesEveryTool ==
    wire.name \in ToolNames =>
        /\ wire.name \in Registered
        /\ wire.status # "tool not found"
        /\ wire.status = "called" => last.op = wire.name

\* C20: an updateTodo request through the registered surface, with the id of
\* an item the caller owns and at least one valid field, reaches the
\* dispatcher with its id and yields the updated item, not a validation
\* failure.
UpdateThroughSurfaceKeepsId ==
    (/\ wire.name = "updateTodo"
     /\ UpdateWithIdIssues(Val(wire.args)) = {}
     /\ ~NoSetClauses(UpdatesOf(Val(wire.args)))
     /\ \E r \in todo_items :
           Some(r.id) = Val(wire.args).id /\ r.user_id = extractUserInfo(wire.headers).id) =>
        /\ wire.status = "called"
        /\ Val(wire.passed).id = Val(wire.args).id
        /\ last.op = "updateTodo"
        /\ last.valid
        /\ last.ret.kind = "item"
        /\ last.resp = Content("ok", 1)

\* the value the claim gives a field of the identity: the header verbatim
\* when it is present, the sentinel when it is missing
Verbatim(h, sentinel) == IF h # None THEN Val(h) ELSE sentinel

\* C14: each of id, email and name is the value of its header, whatever it
\* is, when the header is present, and its sentinel only when the header is
\* missing, each field on its own; an item created under the headers carries
\* that identity.
IdentityIsVerbatim ==
    last.op # "none" =>
        LET h == last.headers
            who == [id    |-> Verbatim(h.user, "anonymous"),
                    email |-> Verbatim(h.email, "anonymous@example.com"),
                    name  |-> Verbatim(h.name, "Anonymous User")]
        IN  /\ extractUserInfo(h) = who
            /\ (last.op = "createTodo" /\ last.ret.kind = "item") =>
                  /\ Val(last.ret.item).user_id = who.id
                  /\ Val(last.ret.item).user_email = who.email
                  /\ Val(last.ret.item).user_name = who.name

\* C15: every store operation releases each client it acquired exactly once,
\* whether its statement succeeds or fails, the path of updateTodo without
\* SET clauses included: an operation that has returned holds no client and
\* has released as many as it acquired; with no operation in progress no
\* client is checked out; and never more than the pool maximum are.
ConnectionsReleasedOnce ==
    /\ \A t \in Tasks :
          /\ tasks[t].holds = tasks[t].acquired - tasks[t].released
          /\ tasks[t].holds >= 0
          /\ tasks[t].pc = "done" => tasks[t].holds = 0 /\ tasks[t].acquired >= 1
    /\ (\A t \in Tasks : tasks[t].pc \in {"idle", "done"}) => pool.checkedOut = 0
    /\ pool.checkedOut >= 0
    /\ pool.checkedOut <= pool.max

\* C15 witness: with the pool at its maximum, an updateTodo without SET
\* clauses has returned after acquiring and releasing two clients, and an
\* operation whose statement failed has returned too
ConnectionsReleasedOnceWitness ==
    /\ \E t \in Tasks :
          /\ tasks[t].op = "updateTodo" /\ tasks[t].nested /\ tasks[t].pc = "done"
          /\ tasks[t].acquired = 2 /\ tasks[t].released = 2
    /\ \E t \in Tasks : tasks[t].pc = "done" /\ tasks[t].ret.kind = "threw"
    /\ pool.checkedOut = 0

\* C16: with a pool of any maximum >= 1 and operations in progress at the
\* same time, every operation that was started runs to its end: none waits
\* for a client forever, an updateTodo without SET clauses neither.
EveryOperationCompletes ==
    \A t \in Tasks : (tasks[t].pc # "idle") ~> (tasks[t].pc = "done")

\* C16 witness: over a pool of one client, an updateTodo without SET clauses
\* has returned, having gone through getTodoById, while another operation
\* was in progress
EveryOperationCompletesWitness ==
    /\ pool.max = 1
    /\ \E t \in Tasks :
          /\ tasks[t].op = "updateTodo" /\ tasks[t].nested /\ tasks[t].pc = "done"
          /\ \E u \in Tasks \ {t} : tasks[u].pc \in {"connect", "query", "release"}

\* C17: the completion percentage the statistics tool shows is
\* round(100 * completed / total), halves rounded up, for 0 <= completed <=
\* total and total > 0, and 0 when total is 0; so it is an integer in 0..100.
CompletionRateIsRounded ==
    (last.op = "getTodoStats" /\ last.ret.kind = "stats") =>
        LET completed == last.ret.stats.completed
            total == last.ret.stats.total
        IN  /\ last.resp.rate \in 0..100
            /\ last.resp.rate = IF total = 0 THEN 0
                                ELSE (200 * completed + total) \div (2 * total)

\* C18: in every state tool calls can reach, no two stored items share an
\* id, and every stored item has a title of 1 to 255 characters, a
\* description that is absent or of at most 1000 characters, a priority among
\* low, medium and high, a boolean completed flag and one owner id, whatever
\* create, update and complete calls were made.
StoredItemsAreValid ==
    /\ \A r, s \in todo_items : r.id = s.id => r = s
    /\ \A r \in todo_items :
          /\ Len(r.title) >= 1 /\ Len(r.title) <= TitleMax
          /\ r.description = None \/ Len(Val(r.description)) <= DescMax
          /\ r.priority \in Priorities
          /\ r.completed \in BOOLEAN
          /\ r.user_id \in {extractUserInfo(h).id : h \in StoredIn.headers}

\* C18 witness: an update has just been applied, after which the table holds
\* two items, one with a title and a description of the greatest lengths
\* allowed
StoredItemsAreValidWitness ==
    /\ last.op = "updateTodo" /\ last.ret.kind = "item"
    /\ Cardinality(todo_items) = 2
    /\ \E r \in todo_items :
          /\ r.id = Val(last.ret.item).id
          /\ Len(r.title) = TitleMax
          /\ r.description = Some(Rep("b", DescMax))

\* the fields an update or a complete call names: the partial set
PartialSet(call) ==
    IF call.op = "updateTodo" THEN UpdatesOf(Val(call.params))
    ELSE [NoUpdates EXCEPT !.completed = Some(TRUE)]

\* one step keeps what update and complete do not name, and what nothing
\* may change
FrameStep ==
    /\ \A r \in todo_items : \A s \in todo_items' :
          (s.id = r.id) =>
             (/\ s.created_at = r.created_at
              /\ s.user_id = r.user_id
              /\ s.user_email = r.user_email
              /\ s.user_name = r.user_name)
    /\ (last'.op \in {"updateTodo", "completeTodo"}) =>
          (LET target == Val(last'.params).id
               partial == PartialSet(last')
           IN  /\ {s.id : s \in todo_items'} = {r.id : r \in todo_items}
               /\ \A r \in todo_items : \A s \in todo_items' :
                     (s.id = r.id) =>
                        (/\ (target # Some(r.id)) => (s = r)
                         /\ (partial.title = None) => (s.title = r.title)
                         /\ (partial.description = None) =>
                                (s.description = r.description)
                         /\ (partial.completed = None) => (s.completed = r.completed)
                         /\ (partial.priority = None) => (s.priority = r.priority)
                         /\ (partial.due_date = None) => (s.due_date = r.due_date)))

\* C19: update and complete change only the fields of the partial set and
\* updated_at: the target keeps every field the partial set leaves out, no
\* item is added or removed and every other item stays as it was; and under
\* any operation an item that stays in the table keeps its id, created_at and
\* owner id, email and name, whatever email and name headers the caller
\* sends with the same id.
UpdateChangesOnlyNamedFields == [][FrameStep]_vars

\* C19 witness: the owner, now sending another email and name, has updated the
\* description, priority and due date of one of two items: that item has its
\* first title, is not completed, was created before it was updated, and
\* carries the email and name it was created with
UpdateChangesOnlyNamedFieldsWitness ==
    /\ last.op = "updateTodo" /\ last.ret.kind = "item"
    /\ last.headers = AliceRenamed
    /\ Val(last.params).title = None
    /\ Cardinality(todo_items) = 2
    /\ \E r \in todo_items :
          /\ Some(r.id) = Val(last.params).id
          /\ r.title = <<"a">>
          /\ r.description = Some(<<>>)
          /\ r.priority = "high"
          /\ ~r.completed
          /\ r.updated_at # r.created_at
          /\ r.user_email = "alice@example.com"
          /\ r.user_name = "Alice"

\* C21: whatever creates, updates and deletes on the owner's items run
\* while a list call is in progress, the total and the items that call
\* returns describe the same filtered set: with offset 0 the number of items
\* is the smaller of the total and the limit, and never more than the total.
ListTotalMatchesPage ==
    \A t \in Tasks :
       (tasks[t].op = "getAllTodos" /\ tasks[t].pc = "done"
          /\ tasks[t].ret.kind = "list") =>
          LET total == tasks[t].ret.total
              limit == TaskFilters.limit
          IN  /\ TaskFilters.offset = 0
              /\ Len(tasks[t].ret.items) = IF total < limit THEN total ELSE limit
              /\ Len(tasks[t].ret.items) <= total

\* the operations of a kind whose statement has run and did not fail
Ran(op, kind) ==
    {t \in Tasks : /\ tasks[t].op = op
                   /\ tasks[t].pc \in {"release", "done"}
                   /\ tasks[t].ret.kind = kind}

\* the item the operations in progress are about, while it is stored
Raced == {r \in todo_items : r.id = TaskId}

\* C22: for requests by the owner on one item id, in progress at the same
\* time, in any order of their steps: at most one delete returns true, a
\* delete returns false only when another has deleted the item, so of the
\* deletes that return exactly one returns true; an update or complete
\* returns the item with its fields set, or absent, absent only once a
\* delete has deleted the item; the item is not stored once a delete has
\* returned true; and when two updates naming different fields have both
\* returned the item, the stored item carries both.
RacesLeaveOneOutcome ==
    /\ Cardinality({t \in Ran("deleteTodo", "bool") : tasks[t].ret.flag}) <= 1
    /\ \A t \in Ran("deleteTodo", "bool") :
          /\ ~tasks[t].ret.flag => \E u \in Ran("deleteTodo", "bool") : tasks[u].ret.flag
          /\ tasks[t].ret.flag => Raced = {}
    /\ \A t \in Tasks :
          (tasks[t].op = "updateTodo" /\ tasks[t].pc \in {"release", "done"}) =>
             /\ tasks[t].ret.kind \in {"item", "absent", "threw"}
             /\ tasks[t].ret.kind = "absent" =>
                   \E u \in Ran("deleteTodo", "bool") : tasks[u].ret.flag
             /\ tasks[t].ret.kind = "item" =>
                   LET item == Val(tasks[t].ret.item)
                       updates == Val(tasks[t].updates)
                   IN  /\ item.id = TaskId
                       /\ IsSome(updates.title) => item.title = Val(updates.title)
                       /\ IsSome(updates.completed) =>
                              item.completed = Val(updates.completed)
    /\ \A t, u \in Ran("updateTodo", "item") :
          (tasks[t].updates = Some(TitleB) /\ tasks[u].updates = Some(CompletedTrue)) =>
             \A r \in Raced : r.title = <<"b">> /\ r.completed

\* C22 witness: two deletes of the stored item have both returned, one true
\* and one false, over a pool that let them run at the same time
RacesLeaveOneOutcomeWitness ==
    /\ pool.max > 1
    /\ \E t, u \in Tasks :
          /\ tasks[t].op = "deleteTodo" /\ tasks[t].pc = "done"
          /\ tasks[t].ret.kind = "bool" /\ tasks[t].ret.flag
          /\ tasks[u].op = "deleteTodo" /\ tasks[u].pc = "done"
          /\ tasks[u].ret.kind = "bool" /\ ~tasks[u].ret.flag

====
